---- MODULE Spec2Model ----
(***************************************************************************)
(* Model of app.py, the CNC e-mail consolidator: the e-mail normaliser     *)
(* clean_email, the consolidation process_dataframes, and the Streamlit    *)
(* script main() with its session state (dataframes, result_df), the       *)
(* "Load Latest Registration Data" and "Clear Data" buttons and the        *)
(* results section (country filter, sort, e-mail lists).                   *)
(*                                                                         *)
(* Text is a sequence of one-character strings, so that str.strip and      *)
(* str.lower are computed character by character.  A cell of a table is a  *)
(* record [kind, str, num]: a missing value (NaN), Python's None, a        *)
(* string, or a number as pandas.read_csv produces it.                     *)
(***************************************************************************)
EXTENDS Integers, Sequences, FiniteSets, TLC

\* ------------------------------------------------------------------ bounds

\* Longest raw text handed to clean_email in CleanSpec.
MaxLen == 4

\* Most rows one fetched sheet has.
MaxRows == 2

\* Number of entries of FIXED_SHEET_URLS.
NumSheets == 2

\* ------------------------------------------------------------------ text

UPPER == <<"A","B","C","D","E","F","G","H","I","J","K","L","M",
           "N","O","P","Q","R","S","T","U","V","W","X","Y","Z">>

LOWER == <<"a","b","c","d","e","f","g","h","i","j","k","l","m",
           "n","o","p","q","r","s","t","u","v","w","x","y","z">>

DIGITS == <<"0","1","2","3","4","5","6","7","8","9">>

\* The characters str.strip() removes (those the model's text can hold).
Whitespace == {" ", "\t"}

\* Code-point order of the characters the model's text can hold.
ASCII == <<"\t", " ">> \o DIGITS \o <<"<", ">", "@">> \o UPPER \o LOWER

Ord(c) == CHOOSE k \in 1..Len(ASCII) : ASCII[k] = c

Range(s) == {s[k] : k \in 1..Len(s)}

\* str.lower() on one character.
LowerChar(c) ==
  IF \E k \in 1..Len(UPPER) : UPPER[k] = c
    THEN LOWER[CHOOSE k \in 1..Len(UPPER) : UPPER[k] = c]
    ELSE c

\* str.lower()
Lower(s) == [k \in 1..Len(s) |-> LowerChar(s[k])]

RECURSIVE LStrip(_)
LStrip(s) ==
  IF s # <<>> /\ Head(s) \in Whitespace THEN LStrip(Tail(s)) ELSE s

RECURSIVE RStrip(_)
RStrip(s) ==
  IF s # <<>> /\ s[Len(s)] \in Whitespace
    THEN RStrip(SubSeq(s, 1, Len(s) - 1))
    ELSE s

\* A slip: only the left end trimmed.
StripLeftOnly(s) == LStrip(s)

\* str.strip()
Strip(s) == RStrip(LStrip(s))

\* Decimal digits of a natural number, as str(int) writes them.
RECURSIVE Dec(_)
Dec(n) == IF n < 10 THEN <<DIGITS[n + 1]>> ELSE Dec(n \div 10) \o <<DIGITS[(n % 10) + 1]>>

\* Python's < on str: lexicographic by code point.
RECURSIVE StrLess(_, _)
StrLess(a, b) ==
  IF b = <<>> THEN FALSE
  ELSE IF a = <<>> THEN TRUE
  ELSE IF Head(a) # Head(b) THEN Ord(Head(a)) < Ord(Head(b))
  ELSE StrLess(Tail(a), Tail(b))

\* sep.join(parts)
RECURSIVE Join(_, _)
Join(sep, parts) ==
  IF parts = <<>> THEN <<>>
  ELSE IF Len(parts) = 1 THEN parts[1]
  ELSE parts[1] \o sep \o Join(sep, Tail(parts))

\* ------------------------------------------------------------------ cells

NaN == [kind |-> "nan", str |-> <<>>, num |-> 0]

None == [kind |-> "none", str |-> <<>>, num |-> 0]

Text(s) == [kind |-> "str", str |-> s, num |-> 0]

Num(n) == [kind |-> "num", str |-> <<>>, num |-> n]

\* pd.isna / Series.notna on a scalar cell
isna(c) == c.kind \in {"nan", "none"}

\* str(value) of a cell
Str(c) ==
  CASE c.kind = "str" -> c.str
    [] c.kind = "num" -> Dec(c.num)
    [] c.kind = "nan" -> <<"n","a","n">>
    [] OTHER -> <<"N","o","n","e">>

\* A slip: the '@' test dropped.
clean_email_no_at(email) ==
  IF isna(email) THEN None ELSE Text(Lower(Strip(Str(email))))

clean_email(email) ==
  IF isna(email) THEN None
  ELSE LET e == Lower(Strip(Str(email)))
       IN IF "@" \in Range(e) THEN Text(e) ELSE None

\* ------------------------------------------------------------------ tables

COUNTRY_COL == "Country/Region Name"

AllCols == {"Full Name", "Email", COUNTRY_COL}

\* A data frame: its columns and its rows; a row holds NaN in a column the
\* frame does not have (what pd.concat fills in).
Df(cols, rows) == [kind |-> "df", cols |-> cols, rows |-> rows]

\* load_google_sheet's None, and process_dataframes' None.
DfNone == [kind |-> "none", cols |-> {}, rows |-> <<>>]

\* 'result_df' not in st.session_state
Absent == [kind |-> "absent", cols |-> {}, rows |-> <<>>]

\* The KeyError that combined_df['Email'] raises when no frame has the column.
KeyError == [kind |-> "KeyError", cols |-> {}, rows |-> <<>>]

Row(n, e, c) == [name |-> n, email |-> e, country |-> c]

\* Rows a sheet with all three columns can hold: the same person twice under
\* two spellings of one address, and a second person.
FullPool ==
  { Row(Text(<<"J","o">>),     Text(<<"J","O","@","X">>),     Text(<<"U","S">>)),
    Row(Text(<<"J","o">>),     Text(<<" ","j","o","@","x">>), Text(<<"F","R">>)),
    Row(Text(<<"S","a","m">>), Text(<<"s","@","y">>),         Text(<<"F","R">>)) }

\* Rows of a sheet that has no 'Email' column.
NoEmailPool == { Row(Text(<<"B","o">>), NaN, Text(<<"U","S">>)) }

\* Rows of a sheet that has only the 'Email' column: a third person, and a
\* cell with no '@'.
EmailOnlyPool ==
  { Row(NaN, Text(<<"k","@","z">>), NaN),
    Row(NaN, Text(<<"a","n","n">>), NaN) }

SeqsUpTo(S, n) == UNION {[1..k -> S] : k \in 0..n}

\* What pd.read_csv can return for a sheet.
Sheets ==
  {Df(AllCols, r) : r \in SeqsUpTo(FullPool, MaxRows)}
    \cup {Df({"Full Name", COUNTRY_COL}, r) : r \in SeqsUpTo(NoEmailPool, MaxRows)}
    \cup {Df({"Email"}, r) : r \in SeqsUpTo(EmailOnlyPool, MaxRows)}

\* load_google_sheet(url): the frame read, or None when read_csv raised (the
\* exception is caught and reported there).
load_google_sheet == Sheets \cup {DfNone}

\* pd.concat(dfs, ignore_index=True)
RECURSIVE concat(_)
concat(dfs) ==
  IF dfs = <<>> THEN Df({}, <<>>)
  ELSE LET rest == concat(Tail(dfs))
       IN Df(Head(dfs).cols \cup rest.cols, Head(dfs).rows \o rest.rows)

\* A slip: keep='last'.
RECURSIVE drop_duplicates_last(_, _)
drop_duplicates_last(rows, seen) ==
  IF rows = <<>> THEN <<>>
  ELSE LET r == rows[Len(rows)]
           front == SubSeq(rows, 1, Len(rows) - 1)
       IN IF r.email \in seen
            THEN drop_duplicates_last(front, seen)
            ELSE drop_duplicates_last(front, seen \cup {r.email}) \o <<r>>

\* drop_duplicates(subset=['Email'], keep='first'); seen = the e-mails of the
\* rows already kept.
RECURSIVE drop_duplicates(_, _)
drop_duplicates(rows, seen) ==
  IF rows = <<>> THEN <<>>
  ELSE IF Head(rows).email \in seen
    THEN drop_duplicates(Tail(rows), seen)
    ELSE <<Head(rows)>> \o drop_duplicates(Tail(rows), seen \cup {Head(rows).email})

\* combined_df['Email'].apply(clean_email)
apply_clean_email(rows) ==
  [k \in 1..Len(rows) |-> [rows[k] EXCEPT !.email = clean_email(rows[k].email)]]

\* combined_df[combined_df['Email'].notna()]
notna_rows(rows) == SelectSeq(rows, LAMBDA r : ~isna(r.email))

process_dataframes(dfs) ==
  IF dfs = <<>> THEN DfNone
  ELSE LET combined_df == concat(dfs)
       IN IF "Email" \notin combined_df.cols THEN KeyError
          ELSE Df(combined_df.cols,
                  drop_duplicates(notna_rows(apply_clean_email(combined_df.rows)), {}))

\* ------------------------------------------------------------------ view

\* The 'All' entry of the country selectbox.
All == Text(<<"A","l","l">>)

\* The cell of a row under a column name.
Cell(r, col) ==
  CASE col = "Email" -> r.email
    [] col = "Full Name" -> r.name
    [] OTHER -> r.country

\* The options of the "Filter by Country:" selectbox; without the country
\* column there is no selectbox and selected_country is 'All'.
countries(df) ==
  IF COUNTRY_COL \in df.cols
    THEN {All} \cup {df.rows[k].country : k \in {j \in 1..Len(df.rows) : ~isna(df.rows[j].country)}}
    ELSE {All}

\* A slip: the filter never applied.
filter_country_off(rows, selected) == rows

\* display_df = result_df.copy(); if selected_country != 'All':
\*   display_df = display_df[display_df[COUNTRY_COL] == selected_country]
filter_country(rows, selected) ==
  IF selected # All THEN SelectSeq(rows, LAMBDA r : r.country = selected) ELSE rows

\* a comes no later than b in sort_values(ascending=asc): missing values last
\* in either direction (na_position='last').
InOrder(a, b, asc) ==
  IF isna(b) THEN TRUE
  ELSE IF isna(a) THEN FALSE
  ELSE IF asc THEN ~StrLess(Str(b), Str(a)) ELSE ~StrLess(Str(a), Str(b))

Orderings(n) == {p \in [1..n -> 1..n] : \A a, b \in 1..n : p[a] = p[b] => a = b}

\* The outcomes of display_df.sort_values(by=col, ascending=asc): the default
\* kind='quicksort' is not stable, so rows with equal keys may come in any order.
sort_values(rows, col, asc) ==
  { [k \in 1..Len(rows) |-> rows[p[k]]] : p \in
      { q \in Orderings(Len(rows)) :
          \A k \in 1..(Len(rows) - 1) :
            InOrder(Cell(rows[q[k]], col), Cell(rows[q[k + 1]], col), asc) } }

\* display_df['Email'].tolist()
email_list(rows) == [k \in 1..Len(rows) |-> rows[k].email.str]

\* f"{x['Full Name']} <{x['Email']}>" per row, or the plain list without the
\* 'Full Name' column.
names_list(cols, rows) ==
  IF "Full Name" \in cols
    THEN [k \in 1..Len(rows) |-> Str(rows[k].name) \o <<" ", "<">> \o rows[k].email.str \o <<">">>]
    ELSE email_list(rows)

\* ------------------------------------------------------------------ state

VARIABLES
  dataframes,        \* st.session_state.dataframes
  result_df,         \* st.session_state.result_df, or Absent
  pc,                \* where the script run stands: idle, fetch, process, render
  i,                 \* index of the next entry of FIXED_SHEET_URLS to fetch
  loaded_count,      \* loaded_count of the running load
  fetched,           \* what load_google_sheet returned, per sheet of the running load
  report,            \* the messages and uncaught exceptions of the script run
  selected_country,  \* selected_country of the script run
  sort_column,       \* sort_column of the script run
  sort_order,        \* sort_order of the script run
  filtered_df,       \* display_df after the country filter, before the sort
  display_df,        \* display_df as shown and exported (sorted), or Absent
  all_emails,        \* all_emails
  all_emails_string, \* '; '.join(all_emails)
  emails_with_names, \* emails_with_names
  email,             \* CleanSpec: the argument of clean_email
  email_key          \* CleanSpec: what clean_email returned

vars == <<dataframes, result_df, pc, i, loaded_count, fetched, report,
          selected_country, sort_column, sort_order, filtered_df, display_df, all_emails,
          all_emails_string, emails_with_names, email, email_key>>

session == <<dataframes, result_df>>
load_locals == <<i, loaded_count, fetched>>
widgets == <<selected_country, sort_column, sort_order>>
shown == <<filtered_df, display_df, all_emails, all_emails_string, emails_with_names>>
clean_vars == <<email, email_key>>

Unset == [kind |-> "unset", str |-> <<>>, num |-> 0]

\* A script run that does not reach the results section assigns none of its locals.
NoView ==
  /\ selected_country' = Unset
  /\ sort_column' = "unset"
  /\ sort_order' = "unset"
  /\ filtered_df' = Absent
  /\ display_df' = Absent
  /\ all_emails' = <<>>
  /\ all_emails_string' = <<>>
  /\ emails_with_names' = <<>>

MainInit ==
  /\ dataframes = <<>>
  /\ result_df = Absent
  /\ pc = "idle"
  /\ i = 1
  /\ loaded_count = 0
  /\ fetched = <<>>
  /\ report = {}
  /\ selected_country = Unset
  /\ sort_column = "unset"
  /\ sort_order = "unset"
  /\ filtered_df = Absent
  /\ display_df = Absent
  /\ all_emails = <<>>
  /\ all_emails_string = <<>>
  /\ emails_with_names = <<>>
  /\ email_key = Unset

Init ==
  /\ MainInit
  /\ email = Unset

\* ------------------------------------------------------------------ main()

\* st.session_state.dataframes.append(df)
append_loaded(dfs, df) == Append(dfs, df)

\* A slip: a failed load drops the roster.
result_after_load_drop(old, dfs, loaded) ==
  IF loaded > 0
    THEN LET r == process_dataframes(dfs)
         IN IF r.kind = "df" /\ r.rows # <<>> THEN r ELSE old
    ELSE Absent

\* st.session_state.result_df after the branch on loaded_count: replaced only
\* by a result that is not None and not empty.
result_after_load(old, dfs, loaded) ==
  IF loaded > 0
    THEN LET r == process_dataframes(dfs)
         IN IF r.kind = "df" /\ r.rows # <<>> THEN r ELSE old
    ELSE old

\* The "Load Latest Registration Data" button: the session's frames are
\* emptied and the loop over FIXED_SHEET_URLS starts.
ClickLoad ==
  /\ pc = "idle"
  /\ dataframes' = <<>>
  /\ loaded_count' = 0
  /\ i' = 1
  /\ fetched' = <<>>
  /\ report' = {}
  /\ pc' = "fetch"
  /\ NoView
  /\ UNCHANGED <<result_df, clean_vars>>

\* One turn of the loop: df = load_google_sheet(url), kept when not None.
Fetch(df) ==
  /\ pc = "fetch"
  /\ fetched' = Append(fetched, df)
  /\ IF df # DfNone
       THEN /\ dataframes' = append_loaded(dataframes, df)
            /\ loaded_count' = loaded_count + 1
            /\ report' = report \cup {"LoadedSheet"}
       ELSE /\ report' = report \cup {"ErrorLoadingSheet"}
            /\ UNCHANGED <<dataframes, loaded_count>>
  /\ i' = i + 1
  /\ pc' = IF i = NumSheets THEN "process" ELSE "fetch"
  /\ UNCHANGED <<result_df, widgets, shown, clean_vars>>

\* After the loop: process the loaded frames, or report that none loaded.  A
\* KeyError of process_dataframes is caught nowhere: the script run ends there.
Process ==
  /\ pc = "process"
  /\ result_df' = result_after_load(result_df, dataframes, loaded_count)
  /\ IF loaded_count > 0
       THEN LET r == process_dataframes(dataframes)
            IN IF r = KeyError
                 THEN /\ report' = report \cup {"LoadedAll", "KeyError"}
                      /\ pc' = "idle"
                 ELSE /\ report' = report \cup {"LoadedAll"}
                           \cup (IF r.kind = "df" /\ r.rows # <<>> THEN {"Found"} ELSE {})
                      /\ pc' = "render"
       ELSE /\ report' = report \cup {"FailedToLoad"}
            /\ pc' = "render"
  /\ UNCHANGED <<dataframes, load_locals, widgets, shown, clean_vars>>

\* A widget of the results section is changed: the script runs again from the
\* top with no button pressed, so nothing of the last run's output remains.
Rerun ==
  /\ pc = "idle"
  /\ pc' = "render"
  /\ report' = {}
  /\ NoView
  /\ UNCHANGED <<session, load_locals, clean_vars>>

\* The results section, which ends a script run.  col, ord and sel are the
\* values the widgets return.
Render(col, ord, sel) ==
  /\ pc = "render"
  /\ pc' = "idle"
  /\ UNCHANGED report
  /\ IF result_df.kind = "df"
       THEN /\ col \in result_df.cols
            /\ sel \in countries(result_df)
            /\ sort_column' = col
            /\ sort_order' = ord
            /\ selected_country' = sel
            /\ filtered_df' = Df(result_df.cols, filter_country(result_df.rows, sel))
            /\ display_df' \in
                 {Df(result_df.cols, r) :
                    r \in sort_values(filtered_df'.rows, col, ord = "Ascending")}
            /\ all_emails' = email_list(display_df'.rows)
            /\ all_emails_string' = Join(<<";", " ">>, all_emails')
            /\ emails_with_names' = names_list(display_df'.cols, display_df'.rows)
       ELSE NoView
  /\ UNCHANGED <<session, load_locals, clean_vars>>

\* The "Clear Data" button, and the rerun it asks for.
ClickClear ==
  /\ pc = "idle"
  /\ dataframes' = <<>>
  /\ result_df' = Absent
  /\ report' = {}
  /\ pc' = "idle"
  /\ NoView
  /\ UNCHANGED <<load_locals, clean_vars>>

Next ==
  \/ ClickLoad
  \/ \E df \in load_google_sheet : Fetch(df)
  \/ Process
  \/ Rerun
  \/ \E col \in AllCols, ord \in {"Ascending", "Descending"}, sel \in countries(result_df) :
       Render(col, ord, sel)
  \/ ClickClear

Spec == Init /\ [][Next]_vars

\* ------------------------------------------------------------------ clean_email alone

CleanAlphabet == {" ", "\t", "A", "a", "@"}

\* The cells clean_email is tried on.
CleanInputs ==
  {NaN, None} \cup {Num(n) : n \in {0, 7, 42}}
    \cup {Text(s) : s \in SeqsUpTo(CleanAlphabet, MaxLen)}

CleanInit ==
  /\ MainInit
  /\ email \in CleanInputs

CallCleanEmail ==
  /\ email_key = Unset
  /\ email_key' = clean_email(email)
  /\ UNCHANGED <<session, pc, load_locals, report, widgets, shown, email>>

CleanNext == CallCleanEmail

CleanSpec == CleanInit /\ [][CleanNext]_vars

\* ------------------------------------------------------------------ properties

IsUpper(c) == \E k \in 1..Len(UPPER) : UPPER[k] = c

\* The frames a load fetched, in the order of FIXED_SHEET_URLS, failures left out.
LoadedOf(f) == SelectSeq(f, LAMBDA d : d # DfNone)

\* The rows of those frames, one source after the other.
RECURSIVE RowsInOrder(_)
RowsInOrder(f) == IF f = <<>> THEN <<>> ELSE Head(f).rows \o RowsInOrder(Tail(f))

\* The value of a record under a column, missing when the frame has no such column.
Attr(df, r, col) == IF col \in df.cols THEN Cell(r, col) ELSE NaN

BothSources == Text(<<"B","o","t","h","S","o","u","r","c","e","s">>)

\* The single-source tags, in the order of the sources.
SingleSourceTag == <<Text(<<"I","n","d","i","v","i","d","u","a","l","O","n","l","y">>),
                     Text(<<"C","i","t","y","O","n","l","y">>)>>

\* Every e-mail of the frame is a string with no whitespace at either end, no
\* upper-case letter and an '@', and no two records share one.
RosterEmailsOK(df) ==
  \A k \in 1..Len(df.rows) :
    LET e == df.rows[k].email
    IN /\ e.kind = "str"
       /\ "@" \in Range(e.str)
       /\ e.str[1] \notin Whitespace
       /\ e.str[Len(e.str)] \notin Whitespace
       /\ \A c \in Range(e.str) : ~IsUpper(c)
       /\ \A j \in 1..Len(df.rows) : df.rows[j].email = e => j = k

\* C1: every frame process_dataframes returns, and every roster held in the
\* session, has only non-null, trimmed, lower-case e-mails containing '@', each
\* of them once.
C1_RosterEmailsValidUnique ==
  /\ result_df.kind = "df" => RosterEmailsOK(result_df)
  /\ pc = "process" =>
       LET r == process_dataframes(dataframes)
       IN r.kind = "df" => RosterEmailsOK(r)

\* A stored roster of two people whose sources held an upper-case spelling, a
\* duplicate and a row without '@'.
C1_Witness ==
  /\ result_df.kind = "df"
  /\ "Found" \in report
  /\ Len(result_df.rows) >= 2
  /\ LET raw == RowsInOrder(dataframes)
     IN /\ \E k \in 1..Len(raw) : raw[k].email.kind = "str" /\ "@" \notin Range(raw[k].email.str)
        /\ \E k \in 1..Len(raw) : \E c \in Range(raw[k].email.str) : IsUpper(c)
        /\ \E j, k \in 1..Len(raw) :
             j # k /\ ~isna(clean_email(raw[j].email))
                   /\ clean_email(raw[j].email) = clean_email(raw[k].email)

\* t is s without the whitespace at its two ends and with every upper-case
\* letter replaced by its lower-case one.
IsTrimmedLowered(s, t) ==
  \E a \in 0..Len(s) : \E b \in a..Len(s) :
    /\ \A k \in 1..a : s[k] \in Whitespace
    /\ \A k \in (b + 1)..Len(s) : s[k] \in Whitespace
    /\ b > a => (s[a + 1] \notin Whitespace /\ s[b] \notin Whitespace)
    /\ Len(t) = b - a
    /\ \A k \in 1..(b - a) :
         IF IsUpper(s[a + k])
           THEN \E m \in 1..Len(UPPER) : UPPER[m] = s[a + k] /\ t[k] = LOWER[m]
           ELSE t[k] = s[a + k]

\* C2: clean_email gives None for a missing cell; for any other cell it gives
\* the trimmed, lower-cased string of the cell exactly when that holds an '@',
\* and None otherwise.
C2_CleanEmail ==
  email_key # Unset =>
    IF email.kind \in {"nan", "none"}
      THEN email_key = None
      ELSE /\ ("@" \in Range(Str(email))) <=> (email_key # None)
           /\ email_key # None =>
                (email_key.kind = "str" /\ IsTrimmedLowered(Str(email), email_key.str))

\* A string with whitespace at both ends and an upper-case letter was cleaned
\* to a key.
C2_Witness ==
  /\ email_key.kind = "str"
  /\ email.kind = "str"
  /\ Head(email.str) \in Whitespace
  /\ email.str[Len(email.str)] \in Whitespace
  /\ \E c \in Range(email.str) : IsUpper(c)

\* The indices of the candidates (the fetched rows in source order) whose
\* cleaned e-mail is e.
Group(cand, e) == {k \in 1..Len(cand) : clean_email(cand[k].email) = e}

\* C4: of the candidates sharing one normalized e-mail, the roster keeps one
\* record, a BothSources-tagged one when there is one, and otherwise the first
\* in the sources' declaration order and each source's row order.
C4_FirstOccurrenceKept ==
  (pc = "render" /\ "Found" \in report) =>
    LET cand == RowsInOrder(LoadedOf(fetched))
        src == Df(AllCols, cand)
        keys == {clean_email(cand[k].email) : k \in 1..Len(cand)} \ {None}
        kept(e) == {k \in 1..Len(result_df.rows) : result_df.rows[k].email = e}
    IN /\ \A k \in 1..Len(result_df.rows) : result_df.rows[k].email \in keys
       /\ \A e \in keys :
            LET first == CHOOSE k \in Group(cand, e) : \A j \in Group(cand, e) : k <= j
                tagged == {k \in Group(cand, e) : Attr(src, cand[k], "source_tag") = BothSources}
            IN /\ Cardinality(kept(e)) = 1
               /\ \A k \in kept(e) :
                    IF tagged # {}
                      THEN \E t \in tagged : result_df.rows[k] = [cand[t] EXCEPT !.email = e]
                      ELSE result_df.rows[k] = [cand[first] EXCEPT !.email = e]

\* A roster built from an e-mail that two different rows carried, in one
\* source or in two, and the second sheet's frame differs from the first's.
C4_Witness ==
  /\ pc = "render"
  /\ "Found" \in report
  /\ Len(dataframes) = NumSheets
  /\ dataframes[1] # dataframes[2]
  /\ LET cand == RowsInOrder(LoadedOf(fetched))
     IN \E j, k \in 1..Len(cand) :
          /\ j < k
          /\ cand[j] # cand[k]
          /\ ~isna(clean_email(cand[j].email))
          /\ clean_email(cand[j].email) = clean_email(cand[k].email)

\* The normalized e-mails a source holds.
KeySet(df) == {clean_email(df.rows[k].email) : k \in 1..Len(df.rows)} \ {None}

\* C3: after consolidation a record whose e-mail is in two or more sources is
\* tagged BothSources, and a record whose e-mail is in exactly one source
\* carries that source's tag.
C3_ProvenanceTag ==
  (pc = "render" /\ "Found" \in report) =>
    \A k \in 1..Len(result_df.rows) :
      LET rec == result_df.rows[k]
          srcs == {n \in 1..Len(fetched) : fetched[n] # DfNone /\ rec.email \in KeySet(fetched[n])}
      IN /\ Cardinality(srcs) >= 2 => Attr(result_df, rec, "source_tag") = BothSources
         /\ Cardinality(srcs) = 1 =>
              \A n \in srcs : Attr(result_df, rec, "source_tag") = SingleSourceTag[n]

AllFailed == fetched # <<>> /\ \A k \in 1..Len(fetched) : fetched[k] = DfNone

\* C5: a load in which every sheet fails leaves the stored roster as it was
\* before the load, absent or record for record, and reports the failure.
C5_AllFailedKeepsRoster ==
  [][ /\ pc' \in {"fetch", "process"} => result_df' = result_df
      /\ (pc = "process" /\ AllFailed) =>
           (result_df' = result_df /\ "FailedToLoad" \in report') ]_vars

\* A load in which every sheet failed has ended and the roster of an earlier
\* load is still stored.
C5_Witness ==
  /\ pc = "render"
  /\ AllFailed
  /\ "FailedToLoad" \in report
  /\ result_df.kind = "df"
  /\ result_df.rows # <<>>

\* The load has ended without an exception, with some sheet loaded and no
\* record left by process_dataframes.
EmptyResult ==
  /\ pc = "render"
  /\ "LoadedAll" \in report
  /\ process_dataframes(dataframes).kind = "df"
  /\ process_dataframes(dataframes).rows = <<>>

\* C6: after a load that loaded a sheet and left no record, the stored roster
\* is the empty sequence, whatever was stored before, and the run does not
\* report the failure of all sheets.
C6_EmptyResultStored ==
  EmptyResult =>
    /\ result_df.kind = "df"
    /\ result_df.rows = <<>>
    /\ "FailedToLoad" \notin report

\* C7: after a load in which some sheet failed and some sheet loaded, the
\* frames held are those that loaded, in the sheets' order, and the stored
\* roster is their consolidation.
C7_FailedSheetSkipped ==
  (/\ pc = "render"
   /\ "LoadedAll" \in report
   /\ \E k \in 1..Len(fetched) : fetched[k] = DfNone) =>
    /\ "ErrorLoadingSheet" \in report
    /\ dataframes = LoadedOf(fetched)
    /\ result_df = process_dataframes(LoadedOf(fetched))

\* C8: the roster is absent at the start; the step that ends a load with a
\* sheet loaded stores the consolidation of that load's sheets; Clear Data
\* removes the roster and the frames; no other step changes the roster.
C8_Lifecycle ==
  /\ result_df = Absent
  /\ [][ /\ (pc = "process" /\ loaded_count > 0) =>
              result_df' = process_dataframes(LoadedOf(fetched))
         /\ ClickClear => (result_df' = Absent /\ dataframes' = <<>>)
         /\ (~(pc = "process" /\ loaded_count > 0) /\ ~ClickClear) =>
              result_df' = result_df ]_vars

\* C9: no exception leaves the consolidation: a load never ends in an
\* uncaught KeyError.
C9_NoException == "KeyError" \notin report

\* f maps 1..n into 1..m in increasing order.
Increasing(f, n) == \A a, b \in 1..n : a < b => f[a] < f[b]

\* sub holds exactly the records of rows that satisfy Keep, in the order of rows.
IsSelection(sub, rows, Keep(_)) ==
  \E f \in [1..Len(sub) -> 1..Len(rows)] :
    /\ Increasing(f, Len(sub))
    /\ \A k \in 1..Len(sub) : sub[k] = rows[f[k]]
    /\ {f[k] : k \in 1..Len(sub)} = {j \in 1..Len(rows) : Keep(rows[j])}

ViewOK ==
  display_df.kind = "df" =>
    /\ result_df.kind = "df"
    /\ IF selected_country = All
         THEN filtered_df.rows = result_df.rows
         ELSE IsSelection(filtered_df.rows, result_df.rows,
                          LAMBDA r : r.country = selected_country)
    /\ Len(display_df.rows) = Len(filtered_df.rows)
    /\ Range(display_df.rows) = Range(filtered_df.rows)
    /\ Len(all_emails) = Len(filtered_df.rows)
    /\ Range(all_emails) = {filtered_df.rows[k].email.str : k \in 1..Len(filtered_df.rows)}
    /\ Range(emails_with_names) =
         {(IF "Full Name" \in result_df.cols
             THEN Str(filtered_df.rows[k].name) \o <<" ", "<">> ELSE <<>>)
            \o filtered_df.rows[k].email.str
            \o (IF "Full Name" \in result_df.cols THEN <<">">> ELSE <<>>) :
          k \in 1..Len(filtered_df.rows)}

====
